---- MODULE Spec2Model ----
(***************************************************************************)
(* A model of the DIB pixel decoder of src/dib_reader.cpp: the process-    *)
(* wide scale-table cache (convert_table, convert_table_init) and the      *)
(* entry points of dib_reader: check_format, start, read_line_argb and     *)
(* read_line_abgr.                                                         *)
(***************************************************************************)
EXTENDS Integers, Naturals, Sequences, FiniteSets, TLC

\* ------------------------------------------------------------------ bounds
\* Largest width of an image whose rows are decoded.
MaxWidth == 2
\* Largest |height| of an image whose rows are decoded.
MaxHeight == 2
\* How many bytes the declared length may fall short of the full pixel data.
MaxTrunc == 8
\* Number of dib_reader objects (decode sessions, one per thread).
NumSessions == 2

\* ------------------------------------------------------- program constants
NUM_CONVERT_TABLES == 8

\* The value of an int/uint32_t/pointer member no code has assigned yet.
Uninit == -1

\* The same, for a uint32_t member (a set of bit positions).
NoWord == {Uninit}

Sessions == 1..NumSessions

\* ----------------------------------------------------------- arithmetic
Pow2(n) == 2 ^ n

\* A uint32_t is modelled by the set of the positions of its one bits, bit 0
\* the least significant: its values exceed the 32-bit signed integers of TLC.
Word(n) == { k \in 0..30 : (n \div Pow2(k)) % 2 = 1 }

\* The same for an unsigned char.
ByteWords == [n \in 0..255 |-> { k \in 0..7 : (n \div Pow2(k)) % 2 = 1 }]

ByteWord(n) == ByteWords[n]

RECURSIVE Val(_)
Val(x) == IF x = {} THEN 0
          ELSE LET k == CHOOSE j \in x : TRUE IN Pow2(k) + Val(x \ {k})

\* x & y
BitAnd(x, y) == x \cap y

\* x | y
BitOr(x, y) == x \cup y

\* x >> s
ShiftRight(x, s) == { k - s : k \in { j \in x : j >= s } }

\* x << s, in 32 bits
ShiftLeft(x, s) == { k + s : k \in { j \in x : j + s <= 31 } }

\* x > y
Greater(x, y) == \E k \in x \ y : \A j \in y \ x : j < k

\* __builtin_ctz(m), m # 0
ctz(m) == CHOOSE k \in m : \A j \in m : k <= j

\* --------------------------------------------------- the scale-table cache
\* static int convert_table[(2 << (NUM_CONVERT_TABLES + 2)) - 2]
ConvertTableLen == 2 * Pow2(NUM_CONVERT_TABLES + 2) - 2

\* get_convert_table(bit): the index in convert_table where the table of
\* bit-width bit+1 starts.
get_convert_table(bit) == 2 * Pow2(bit) - 2

\* generate_scale_table dividing by entries instead of entries - 1
generate_scale_table_by_entries(tbl, base, entries) ==
    [k \in base..(base + entries - 1) |-> ((k - base) * 255) \div entries] @@ tbl

\* generate_scale_table(table, entries), on the array tbl with table = &tbl[base]
generate_scale_table(tbl, base, entries) ==
    [k \in base..(base + entries - 1) |-> ((k - base) * 255) \div (entries - 1)] @@ tbl

\* decode_bitfield(m, shift_out, mask_out)
decode_bitfield(m) ==
    IF m = {} THEN [shift |-> 0, mask |-> {}]
    ELSE [shift |-> ctz(m), mask |-> ShiftRight(m, ctz(m))]

\* ------------------------------------------------------- header accessors
bpp(d) == d.depth \div 8

\* bytes per scanline, rows padded to a multiple of four bytes
stride(d) == ((d.width * bpp(d) + 3) \div 4) * 4

\* the pixel data starts at the start of the borrowed buffer
data(d) == 0

int_pack_16_le(a, b) == ByteWord(a) \cup ShiftLeft(ByteWord(b), 8)

int_pack_32_le(a, b, c, e) ==
    ByteWord(a) \cup ShiftLeft(ByteWord(b), 8) \cup ShiftLeft(ByteWord(c), 16)
        \cup ShiftLeft(ByteWord(e), 24)

\* ------------------------------------------------------------ check_format
\* check_format with the width limit tested by >= instead of >
check_format_width_limit(d, rm, gm, bm, am) ==
    LET maxmask == Word(Pow2(NUM_CONVERT_TABLES) - 1) IN
    IF d.width < 0 THEN "Image width less than zero"
    ELSE IF d.width >= 1073741824 \/ d.height < -1073741824 \/ d.height > 1073741824
         THEN "Image dimensions out of bounds"
    ELSE IF d.depth # 16 /\ d.depth # 24 /\ d.depth # 32
         THEN "Unsupported bit depth"
    ELSE IF d.compression # "RGB" /\ d.compression # "BitFields"
         THEN "Unsupported compression"
    ELSE IF Greater(rm, maxmask) \/ Greater(gm, maxmask) \/ Greater(bm, maxmask)
            \/ Greater(am, maxmask)
         THEN "Bit mask too long"
    ELSE "null"

check_format(d, rm, gm, bm, am) ==
    LET maxmask == Word(Pow2(NUM_CONVERT_TABLES) - 1) IN
    IF d.width < 0 THEN "Image width less than zero"
    ELSE IF d.width > 1073741824 \/ d.height < -1073741824 \/ d.height > 1073741824
         THEN "Image dimensions out of bounds"
    ELSE IF d.depth # 16 /\ d.depth # 24 /\ d.depth # 32
         THEN "Unsupported bit depth"
    ELSE IF d.compression # "RGB" /\ d.compression # "BitFields"
         THEN "Unsupported compression"
    ELSE IF Greater(rm, maxmask) \/ Greater(gm, maxmask) \/ Greater(bm, maxmask)
            \/ Greater(am, maxmask)
         THEN "Bit mask too long"
    ELSE "null"

\* ------------------------------------------------------------------- start
\* lines 77-103: the shifts and masks of the four channels
start_masks(d, c) ==
    IF d.compression = "BitFields"
    THEN LET r == decode_bitfield(d.red_mask)
             g == decode_bitfield(d.green_mask)
             b == decode_bitfield(d.blue_mask)
             a == decode_bitfield(d.alpha_mask)
         IN [c EXCEPT !.rs = r.shift, !.rm = r.mask, !.gs = g.shift, !.gm = g.mask,
                      !.bs = b.shift, !.bm = b.mask, !.as = a.shift, !.am = a.mask]
    ELSE LET c0 == [c EXCEPT !.as = 0, !.am = {}] IN
         IF d.depth = 16
         THEN LET r == decode_bitfield(Word(31744))
                  g == decode_bitfield(Word(992))
                  b == decode_bitfield(Word(31))
              IN [c0 EXCEPT !.rs = r.shift, !.rm = r.mask, !.gs = g.shift,
                            !.gm = g.mask, !.bs = b.shift, !.bm = b.mask]
         ELSE IF d.depth = 24 \/ d.depth = 32
         THEN LET r == decode_bitfield(Word(16711680))
                  g == decode_bitfield(Word(65280))
                  b == decode_bitfield(Word(255))
              IN [c0 EXCEPT !.rs = r.shift, !.rm = r.mask, !.gs = g.shift,
                            !.gm = g.mask, !.bs = b.shift, !.bm = b.mask]
         ELSE c0

\* lines 107-110 and 115-118: iteration i binds the table of width i+1
start_bind(c, i) ==
    LET mask  == Word(Pow2(i + 1) - 1)
        table == get_convert_table(i)
    IN [c EXCEPT !.rtable = IF c.rm = mask THEN table ELSE @,
                 !.gtable = IF c.gm = mask THEN table ELSE @,
                 !.btable = IF c.bm = mask THEN table ELSE @,
                 !.atable = IF c.am = mask THEN table ELSE @]

\* lines 112-113 of iteration i, with the value read from convert_table_init
start_generate(tbl, i, init) ==
    IF ~init THEN generate_scale_table(tbl, get_convert_table(i), Pow2(i + 1))
    ELSE tbl

\* iterations i..NUM_CONVERT_TABLES-1 of the loop of lines 105-119, run
\* without interruption: what they leave in convert_table
RECURSIVE start_tables(_, _, _)
start_tables(tbl, i, init) ==
    IF i >= NUM_CONVERT_TABLES THEN tbl
    ELSE start_tables(start_generate(tbl, i, init), i + 1, init)

\* the same iterations: what they leave in rtable, gtable, btable and atable
RECURSIVE start_binds(_, _)
start_binds(c, i) ==
    IF i >= NUM_CONVERT_TABLES THEN c
    ELSE start_binds(start_bind(c, i), i + 1)

\* --------------------------------------------------------------- read_line
\* What a read the C++ standard leaves undefined may yield: a byte read past
\* the end of the buffer, or through a table pointer start() never assigned.
Garbage == {0, 255}
\* Values check_format may find in a mask member start() has not assigned.
UnassignedMasks == {{}, 0..31}

\* data_ptr[k]
mem(d, junk, k) == IF k < d.data_size THEN d.data[k + 1] ELSE junk

\* read_fn_for_bpp(bpp)(data_ptr, offset)
read_fn_for_bpp(b, d, junk, offset) ==
    IF b = 2
    THEN int_pack_16_le(mem(d, junk, offset), mem(d, junk, offset + 1))
    ELSE IF b = 3
    THEN int_pack_32_le(mem(d, junk, offset), mem(d, junk, offset + 1),
                        mem(d, junk, offset + 2), 0)
    ELSE int_pack_32_le(mem(d, junk, offset), mem(d, junk, offset + 1),
                        mem(d, junk, offset + 2), mem(d, junk, offset + 3))

\* line 166: whether the pixel at pixel_offset is read from the buffer
pixel_in_range(d, pixel_offset) == pixel_offset < d.data_size + bpp(d)

\* lines 163-169
read_pixel(d, junk, pixel_offset) ==
    IF pixel_in_range(d, pixel_offset)
    THEN read_fn_for_bpp(bpp(d), d, junk, pixel_offset)
    ELSE {}

\* static_cast<char>(table[(pixel >> shift) & mask]), as an unsigned byte
scale_channel(tbl, table, pixel, shift, mask, junk) ==
    IF table = Uninit THEN junk
    ELSE tbl[table + Val(BitAnd(ShiftRight(pixel, shift), mask))] % 256

\* lines 171-174
decode_pixel(d, c, tbl, junk, pixel_offset) ==
    LET pixel == read_pixel(d, junk, pixel_offset)
        r == scale_channel(tbl, c.rtable, pixel, c.rs, c.rm, junk)
        g == scale_channel(tbl, c.gtable, pixel, c.gs, c.gm, junk)
        b == scale_channel(tbl, c.btable, pixel, c.bs, c.bm, junk)
        a == IF BitOr(BitOr(ByteWord(r), ByteWord(g)), ByteWord(b)) # {} THEN 255 ELSE 0
    IN [r |-> r, g |-> g, b |-> b, a |-> a]

\* line 157 without the test of the sign of the height
scanline_top_down(d, row) == row

\* line 157
scanline(d, row) == IF d.height < 0 THEN row ELSE d.height - 1 - row

\* line 158, as an offset from data_ptr
linebuf(d, row) == data(d) + stride(d) * scanline(d, row)

\* lines 176-179 with the red and the blue byte exchanged
write_argb_red_first(p) == <<p.r, p.g, p.b, p.a>>

\* lines 176-179
write_argb(p) == <<p.b, p.g, p.r, p.a>>

\* lines 207-210
write_abgr(p) == <<p.r, p.g, p.b, p.a>>

\* the pixels of the row, decoded left to right (lines 161-183)
decode_row(d, c, tbl, row, junk) ==
    [i \in 0..(d.width - 1) |-> decode_pixel(d, c, tbl, junk, linebuf(d, row) + i * bpp(d))]

\* the width*4 bytes read_line_argb(outbuf, row) writes
read_line_argb(d, c, tbl, row, junk) ==
    LET px == decode_row(d, c, tbl, row, junk) IN
    [k \in 1..(4 * d.width) |-> write_argb(px[(k - 1) \div 4])[((k - 1) % 4) + 1]]

\* the width*4 bytes read_line_abgr(outbuf, row) writes
read_line_abgr(d, c, tbl, row, junk) ==
    LET px == decode_row(d, c, tbl, row, junk) IN
    [k \in 1..(4 * d.width) |-> write_abgr(px[(k - 1) \div 4])[((k - 1) % 4) + 1]]

\* the indices of data_ptr a read of the row reads
indices_read(d, row) ==
    UNION { IF pixel_in_range(d, linebuf(d, row) + i * bpp(d))
            THEN (linebuf(d, row) + i * bpp(d))..(linebuf(d, row) + i * bpp(d) + bpp(d) - 1)
            ELSE {}
            : i \in 0..(d.width - 1) }

\* whether a read of a row indexes through a table pointer never assigned
unbound_lookup(d, c) ==
    d.width > 0 /\ (c.rtable = Uninit \/ c.gtable = Uninit \/ c.btable = Uninit)

\* ------------------------------------------------ a second buffer (ghost)
\* The bits of a pixel word no colour mask covers.
uncovered(d, c) ==
    (0..(8 * bpp(d) - 1)) \ (ShiftLeft(c.rm, c.rs) \cup ShiftLeft(c.gm, c.gs) \cup ShiftLeft(c.bm, c.bs))

\* x ^ y
BitXor(x, y) == (x \cup y) \ (x \cap y)

\* d with every uncovered bit of every pixel of the row inverted
twin(d, c, row) ==
    LET lb == linebuf(d, row)
        u  == uncovered(d, c)
    IN [d EXCEPT !.data =
          [k \in 1..d.data_size |->
              IF k - 1 >= lb /\ k - 1 < lb + d.width * bpp(d)
              THEN Val(BitXor(ByteWord(d.data[k]),
                              BitAnd(ShiftRight(u, 8 * ((k - 1 - lb) % bpp(d))), 0..7)))
              ELSE d.data[k]]]

\* ------------------------------------------------------------------- state
VARIABLES
    convert_table_init, \* static bool convert_table_init
    convert_table,      \* static int convert_table[]
    img,                \* per session: the header fields and the borrowed buffer
    chan,               \* per session: rs..as, rm..am, rtable..atable
    pc,                 \* per session: where its caller is
    loop_i,             \* per session: i of the loop of start()
    saw_init,           \* per session: the value start() last read from convert_table_init
    reason,             \* per session: what check_format last returned
    phase,              \* per session: "none", or whether that call came before ("pre") or after ("post") start()
    last,               \* per session: the last row read (ghost)
    gen_count           \* per bit: the calls of generate_scale_table so far (ghost)

vars == <<convert_table_init, convert_table, img, chan, pc, loop_i, saw_init,
          reason, phase, last, gen_count>>

Abs(x) == IF x < 0 THEN -x ELSE x

\* ------------------------------------------------------------------ inputs
Image(w, h, dp, comp, masks, bytes) ==
    [width |-> w, height |-> h, depth |-> dp, compression |-> comp,
     red_mask |-> masks[1], green_mask |-> masks[2], blue_mask |-> masks[3],
     alpha_mask |-> masks[4], data |-> bytes, data_size |-> Len(bytes)]

\* The first n bytes of the buffer contents: 0x10 0x20 0x30, then by turns
\* three zero bytes and three bytes of other values.
Pattern(n) ==
    [k \in 1..n |-> IF k <= 3 THEN 16 * k
                    ELSE IF ((k - 1) \div 3) % 2 = 1 THEN 0
                    ELSE (k * 37) % 256]

NoMasks == <<{}, {}, {}, {}>>

\* red, green, blue, alpha masks of BitFields headers
MaskSets == {
    <<11..15, 5..10, 0..4, {}>>,        \* 5-6-5
    <<16..23, 8..15, 0..7, 24..31>>,    \* 8-8-8-8
    <<0..7, 0..7, 0..3, 8..15>>,        \* red and green and blue overlap
    <<{}, {5, 7}, 0..4, {}>>,           \* no red channel, a gap in the green mask
    <<0..8, 9..13, 14..15, {}>> }       \* 9-bit red mask

FullSize(w, h, dp) == ((w * (dp \div 8) + 3) \div 4) * 4 * Abs(h)

\* Small images, whose rows are decoded, with buffers cut short near the end.
DecodeInputs ==
    { Image(w, h, dp, f[1], f[2], Pattern(FullSize(w, h, dp) - cut)) :
        w \in 1..MaxWidth, h \in {-MaxHeight, MaxHeight}, dp \in {16, 24, 32},
        f \in ({<<"RGB", NoMasks>>} \cup { <<"BitFields", m>> : m \in MaskSets }),
        cut \in 0..MaxTrunc }

\* Headers at and beyond the limits check_format checks.
ValidationInputs ==
    { Image(w, h, dp, comp, m, <<>>) :
        w \in {-1, 0, 1073741824, 1073741825, 2147483647},
        h \in {-1073741825, -1073741824, 1, 1073741824, 1073741825},
        dp \in {8, 16, 24, 32},
        comp \in {"RGB", "RLE8", "BitFields"},
        m \in {<<11..15, 5..10, 0..4, {}>>, <<0..7, 8..15, 16..22, 23..31>>} }

Inputs == DecodeInputs \cup ValidationInputs

\* The images of the sessions that run concurrently.
ConcurrentInput(s) ==
    IF s % 2 = 1
    THEN Image(1, 1, 16, "RGB", NoMasks, Pattern(4))
    ELSE Image(1, -1, 24, "RGB", NoMasks, Pattern(4))

NoImage == Image(0, 0, 16, "RGB", NoMasks, <<>>)

NoChan == [rs |-> Uninit, gs |-> Uninit, bs |-> Uninit, as |-> Uninit,
           rm |-> NoWord, gm |-> NoWord, bm |-> NoWord, am |-> NoWord,
           rtable |-> Uninit, gtable |-> Uninit, btable |-> Uninit, atable |-> Uninit]

NoRead == [kind |-> "none", row |-> 0, out |-> <<>>, line_off |-> 0, idx |-> {},
           unbound |-> FALSE, fault |-> FALSE, twin_out |-> <<>>]

\* ---------------------------------------------------------- initial states
InitCommon ==
    /\ convert_table_init = FALSE
    /\ convert_table = [k \in 0..(ConvertTableLen - 1) |-> 0]
    /\ chan = [s \in Sessions |-> NoChan]
    /\ loop_i = [s \in Sessions |-> 0]
    /\ saw_init = [s \in Sessions |-> FALSE]
    /\ reason = [s \in Sessions |-> "null"]
    /\ phase = [s \in Sessions |-> "none"]
    /\ last = [s \in Sessions |-> NoRead]
    /\ gen_count = [b \in 0..(NUM_CONVERT_TABLES - 1) |-> 0]

\* One decode session, of any of the inputs.
Init ==
    /\ InitCommon
    /\ \E d \in Inputs : img = [s \in Sessions |-> IF s = 1 THEN d ELSE NoImage]
    /\ pc = [s \in Sessions |-> IF s = 1 THEN "new" ELSE "off"]

\* One decode session per thread.
InitConc ==
    /\ InitCommon
    /\ img = [s \in Sessions |-> ConcurrentInput(s)]
    /\ pc = [s \in Sessions |-> "new"]

\* ------------------------------------------------------------------ actions
\* const char* dib_reader::check_format() const, called before or after
\* start(). A mask member start() has not assigned holds any value.
CheckFormat(s) ==
    /\ pc[s] \in {"new", "ready"}
    /\ \E u \in [{ k \in 1..4 : <<chan[s].rm, chan[s].gm, chan[s].bm, chan[s].am>>[k] = NoWord }
                  -> UnassignedMasks] :
         LET c == chan[s]
             val(x, k) == IF x = NoWord THEN u[k] ELSE x
         IN reason' = [reason EXCEPT ![s] =
                check_format(img[s], val(c.rm, 1), val(c.gm, 2), val(c.bm, 3), val(c.am, 4))]
    /\ phase' = [phase EXCEPT ![s] = IF pc[s] = "new" THEN "pre" ELSE "post"]
    /\ UNCHANGED <<convert_table_init, convert_table, img, chan, pc, loop_i,
                   saw_init, last, gen_count>>

\* void dib_reader::start(), run by a thread no other thread interleaves with
Start(s) ==
    /\ pc[s] = "new"
    /\ convert_table' = start_tables(convert_table, 0, convert_table_init)
    /\ chan' = [chan EXCEPT ![s] = start_binds(start_masks(img[s], chan[s]), 0)]
    /\ gen_count' = [b \in DOMAIN gen_count |->
                        gen_count[b] + (IF convert_table_init THEN 0 ELSE 1)]
    /\ convert_table_init' = TRUE
    /\ pc' = [pc EXCEPT ![s] = "ready"]
    /\ UNCHANGED <<img, loop_i, saw_init, reason, phase, last>>

\* start(), lines 77-105: the masks, and i = 0
StartMasks(s) ==
    /\ pc[s] = "new"
    /\ chan' = [chan EXCEPT ![s] = start_masks(img[s], chan[s])]
    /\ loop_i' = [loop_i EXCEPT ![s] = 0]
    /\ pc' = [pc EXCEPT ![s] = "test"]
    /\ UNCHANGED <<convert_table_init, convert_table, img, saw_init, reason,
                   phase, last, gen_count>>

\* start(), line 112: the unsynchronized read of convert_table_init
StartTest(s) ==
    /\ pc[s] = "test"
    /\ saw_init' = [saw_init EXCEPT ![s] = convert_table_init]
    /\ pc' = [pc EXCEPT ![s] = "body"]
    /\ UNCHANGED <<convert_table_init, convert_table, img, chan, loop_i, reason,
                   phase, last, gen_count>>

\* start(), lines 113-118 and the ++i of line 105
StartBody(s) ==
    /\ pc[s] = "body"
    /\ convert_table' = start_generate(convert_table, loop_i[s], saw_init[s])
    /\ gen_count' = [gen_count EXCEPT ![loop_i[s]] = @ + (IF saw_init[s] THEN 0 ELSE 1)]
    /\ chan' = [chan EXCEPT ![s] = start_bind(chan[s], loop_i[s])]
    /\ loop_i' = [loop_i EXCEPT ![s] = @ + 1]
    /\ pc' = [pc EXCEPT ![s] = IF loop_i[s] + 1 < NUM_CONVERT_TABLES THEN "test" ELSE "end"]
    /\ UNCHANGED <<convert_table_init, img, saw_init, reason, phase, last>>

\* start(), line 121, and the return
StartEnd(s) ==
    /\ pc[s] = "end"
    /\ convert_table_init' = TRUE
    /\ pc' = [pc EXCEPT ![s] = "ready"]
    /\ UNCHANGED <<convert_table, img, chan, loop_i, saw_init, reason, phase,
                   last, gen_count>>

\* The rows a caller reads: after start(), of an image check_format accepted.
\* read_line assigns no member and no table entry (lines 155-215), so every
\* row read starts from the state the first one starts from: a session is
\* followed up to its first row read.
CanRead(s, row) ==
    /\ pc[s] = "ready"
    /\ last[s].kind = "none"
    /\ phase[s] # "none"
    /\ reason[s] = "null"
    /\ img[s].width <= MaxWidth
    /\ Abs(img[s].height) <= MaxHeight
    /\ row >= 0
    /\ row < Abs(img[s].height)

\* whether a read of the row reads past the buffer or through a table
\* pointer never assigned
undefined_read(d, c, row) ==
    unbound_lookup(d, c) \/ \E k \in indices_read(d, row) : k >= d.data_size

\* What a read of a row leaves behind. out is <<>> when the read ended the
\* process (fault). twin_out is what a second reader, of the buffer twin(d),
\* writes for the same row.
ReadRecord(s, kind, row, junk, fault, junk2) ==
    LET d  == img[s]
        c  == chan[s]
        d2 == twin(d, c, row)
    IN [kind |-> kind, row |-> row,
        out |-> IF fault THEN <<>>
                ELSE IF kind = "argb"
                THEN read_line_argb(d, c, convert_table, row, junk)
                ELSE read_line_abgr(d, c, convert_table, row, junk),
        line_off |-> linebuf(d, row),
        idx |-> indices_read(d, row),
        unbound |-> unbound_lookup(d, c),
        fault |-> fault,
        twin_out |-> IF kind = "argb"
                     THEN read_line_argb(d2, c, convert_table, row, junk2)
                     ELSE read_line_abgr(d2, c, convert_table, row, junk2)]

ReadLine(s, kind) ==
    \E row \in 0..(MaxHeight - 1) :
      /\ CanRead(s, row)
      /\ LET ub == undefined_read(img[s], chan[s], row) IN
         \E fault \in (IF ub THEN BOOLEAN ELSE {FALSE}) :
         \E junk \in (IF ub /\ ~fault THEN Garbage ELSE {0}),
            junk2 \in (IF ub THEN Garbage ELSE {0}) :
           /\ last' = [last EXCEPT ![s] = ReadRecord(s, kind, row, junk, fault, junk2)]
           /\ pc' = [pc EXCEPT ![s] = IF fault THEN "crashed" ELSE "done"]
      /\ UNCHANGED <<convert_table_init, convert_table, img, chan, loop_i,
                     saw_init, reason, phase, gen_count>>

\* void dib_reader::read_line_argb(char* outbuf, int row)
ReadLineArgb(s) == ReadLine(s, "argb")

\* void dib_reader::read_line_abgr(char* outbuf, int row)
ReadLineAbgr(s) == ReadLine(s, "abgr")

\* ---------------------------------------------------------- specifications
\* Decode sessions that run start() one at a time.
Next ==
    \E s \in Sessions :
        \/ CheckFormat(s)
        \/ Start(s)
        \/ ReadLineArgb(s)
        \/ ReadLineAbgr(s)

Spec == Init /\ [][Next]_vars

\* Decode sessions on concurrent threads: start() interleaves at its reads
\* and writes of the shared table cache.
NextConc ==
    \E s \in Sessions :
        \/ CheckFormat(s)
        \/ StartMasks(s)
        \/ StartTest(s)
        \/ StartBody(s)
        \/ StartEnd(s)
        \/ ReadLineArgb(s)
        \/ ReadLineAbgr(s)

SpecConc == InitConc /\ [][NextConc]_vars

\* ------------------------------------------------------- claims: helpers
Max(S) == CHOOSE x \in S : \A y \in S : y <= x
Min(S) == CHOOSE x \in S : \A y \in S : x <= y

Read(s) == last[s].kind # "none"

\* the four bytes written for pixel i of the last row read
OutPixel(s, i) == SubSeq(last[s].out, 4 * i + 1, 4 * i + 4)

\* the source scanline of an output row, as the row mapping is specified
SourceRow(d, row) == IF d.height < 0 THEN row ELSE d.height - 1 - row

\* C1: every pixel of a row read whose byte offset lies beyond data_size is
\* written as (0,0,0,0), and a row read reads no byte at an index >=
\* data_size. Stated for the reads whose three colour tables are bound and
\* that ran to their end.
C1_NoReadBeyondBuffer ==
    \A s \in Sessions :
        (Read(s) /\ ~last[s].unbound /\ ~last[s].fault) =>
            /\ \A i \in 0..(img[s].width - 1) :
                 last[s].line_off + i * bpp(img[s]) > img[s].data_size
                     => OutPixel(s, i) = <<0, 0, 0, 0>>
            /\ \A k \in last[s].idx : k < img[s].data_size

\* C2: generate_scale_table runs at most once for each bit-width, however the
\* start() calls of the sessions interleave.
C2_BuiltAtMostOnce ==
    \A b \in DOMAIN gen_count : gen_count[b] <= 1

\* C3: once the start() of some session has returned, no start() writes a
\* scale table again.
C3_NoWriteAfterReturn ==
    [][(\E s \in Sessions : pc[s] \in {"ready", "done"}) => gen_count' = gen_count]_vars

\* The number of bit positions a channel mask spans once decode_bitfield has
\* shifted its lowest one bit down to bit 0.
BitWidth(m) == IF m = {} THEN 0 ELSE Max(m) - Min(m) + 1

\* the channel masks in effect: those supplied (BitFields) or the defaults
MasksOf(d) ==
    IF d.compression = "BitFields"
    THEN {d.red_mask, d.green_mask, d.blue_mask, d.alpha_mask}
    ELSE IF d.depth = 16 THEN {10..14, 5..9, 0..4, {}}
    ELSE {16..23, 8..15, 0..7, {}}

\* the first of the four checks of the header alone that fails
HeaderReason(d) ==
    IF d.width < 0 THEN "Image width less than zero"
    ELSE IF d.width > 2^30 \/ Abs(d.height) > 2^30 THEN "Image dimensions out of bounds"
    ELSE IF d.depth \notin {16, 24, 32} THEN "Unsupported bit depth"
    ELSE IF d.compression \notin {"RGB", "BitFields"} THEN "Unsupported compression"
    ELSE "null"

\* the first of the five checks that fails
FirstReason(d) ==
    IF HeaderReason(d) # "null" THEN HeaderReason(d)
    ELSE IF \E m \in MasksOf(d) : BitWidth(m) > 8 THEN "Bit mask too long"
    ELSE "null"

C5_WideMaskRejected ==
    \A s \in Sessions :
        (img[s].compression = "BitFields"
           /\ \E m \in MasksOf(img[s]) : BitWidth(m) > 8)
        => /\ phase[s] # "none" => reason[s] # "null"
           /\ ~Read(s)

Bindable(m) == \E w \in 1..NUM_CONVERT_TABLES : m = 0..(w - 1)

\* C8: a row read of an accepted image writes 0 for every colour channel
\* start() bound no table to, and indexes through no unbound table pointer.
C8_UnboundChannelZero ==
    \A s \in Sessions :
        (Read(s) /\ FirstReason(img[s]) = "null") =>
            LET c == chan[s]
                pos(ch) == IF last[s].kind = "argb"
                           THEN (IF ch = "r" THEN 3 ELSE IF ch = "g" THEN 2 ELSE 1)
                           ELSE (IF ch = "r" THEN 1 ELSE IF ch = "g" THEN 2 ELSE 3)
                zero(ch) == /\ ~last[s].fault
                            /\ \A i \in 0..(img[s].width - 1) : OutPixel(s, i)[pos(ch)] = 0
            IN /\ ~Bindable(c.rm) => zero("r")
               /\ ~Bindable(c.gm) => zero("g")
               /\ ~Bindable(c.bm) => zero("b")
               /\ ~last[s].unbound

\* C9: two buffers that differ only in bits no colour mask covers are read
\* to the same output, and the alpha byte of a pixel is 0xFF exactly when
\* one of its three colour bytes is non-zero.
C9_AlphaFromColourOnly ==
    \A s \in Sessions :
        Read(s) =>
            /\ last[s].out = last[s].twin_out
            /\ \A i \in 0..(img[s].width - 1) :
                 LET p == OutPixel(s, i) IN
                 p[4] = IF p[1] # 0 \/ p[2] # 0 \/ p[3] # 0 THEN 255 ELSE 0

\* the scale table of bit-width w, as specified
ScaleTable(w) == [i \in 0..(2^w - 1) |-> (i * 255) \div (2^w - 1)]

\* the index range of convert_table the table of bit-width w occupies
TableRange(w) == get_convert_table(w - 1)..(get_convert_table(w - 1) + 2^w - 1)

\* convert_table with the eight scale tables in place
BuiltTables ==
    [k \in 0..(ConvertTableLen - 1) |->
        IF \E w \in 1..NUM_CONVERT_TABLES : k \in TableRange(w)
        THEN LET w == CHOOSE v \in 1..NUM_CONVERT_TABLES : k \in TableRange(v)
             IN ScaleTable(w)[k - get_convert_table(w - 1)]
        ELSE 0]

\* the tables have 2^w entries from 0 to 255, never decreasing, in ranges of
\* the array that do not meet
TablesWellFormed ==
    /\ \A w \in 1..NUM_CONVERT_TABLES :
          /\ TableRange(w) \subseteq 0..(ConvertTableLen - 1)
          /\ Cardinality(TableRange(w)) = 2^w
          /\ BuiltTables[get_convert_table(w - 1)] = 0
          /\ BuiltTables[get_convert_table(w - 1) + 2^w - 1] = 255
          /\ \A i \in 0..(2^w - 2) :
                BuiltTables[get_convert_table(w - 1) + i]
                    <= BuiltTables[get_convert_table(w - 1) + i + 1]
    /\ \A v, w \in 1..NUM_CONVERT_TABLES : v # w => TableRange(v) \cap TableRange(w) = {}

\* C10: once a start() has completed, the table of every bit-width w holds
\* floor(i * 255 / (2^w - 1)) at entry i of its 2^w entries, and the eight
\* tables lie in disjoint ranges inside convert_table.
C10_ScaleTables ==
    convert_table_init => (convert_table = BuiltTables /\ TablesWellFormed)

C10_Witness ==
    /\ convert_table_init
    /\ \E s \in Sessions : pc[s] = "ready"
    /\ convert_table[get_convert_table(4) + 31] = 255
    /\ convert_table[get_convert_table(7) + 128] = 128

====
